---- MODULE Spec2Model ----
(***************************************************************************)
(* Model of lib/StencilConfigManager.js: the configuration lifecycle       *)
(* (read / save / legacy migration) and the environment-file upsert.       *)
(*                                                                         *)
(* JavaScript values are modelled as strings.  A file's text is a sequence *)
(* of tokens; the token EOL is os.EOL.  A configuration object is a        *)
(* function from a set of keys to values.                                  *)
(***************************************************************************)
EXTENDS Integers, Sequences, FiniteSets, TLC

(* ------------------------------ bounds --------------------------------- *)
\* number of lines of the environment file before the first call
MaxLines == 2
\* number of calls a caller issues one after the other
MaxCalls == 2

(* --------------------------- JavaScript values ------------------------- *)
JsUndefined == "<undefined>"
JsNull == "<null>"
JsFalse == "<false>"
JsTrue == "<true>"

\* the values `!v` is true of
Falsy(v) == v \in {JsUndefined, JsNull, JsFalse, ""}

\* `value || ''`
OrEmpty(v) == IF Falsy(v) THEN "" ELSE v

EmptyObj == [k \in {} |-> ""]

\* config[k]; a key the object does not have reads as undefined
Get(cfg, k) == IF k \in DOMAIN cfg THEN cfg[k] ELSE JsUndefined

\* config[k] = v
Put(cfg, k, v) == [x \in (DOMAIN cfg) \cup {k} |-> IF x = k THEN v ELSE cfg[x]]

\* a merge in which the left object wins a key both objects have
Spread_leftWins(a, b) == [x \in (DOMAIN a) \cup (DOMAIN b) |-> IF x \in DOMAIN a THEN a[x] ELSE b[x]]

\* { ...a, ...b }
Spread(a, b) == [x \in (DOMAIN a) \cup (DOMAIN b) |-> IF x \in DOMAIN b THEN b[x] ELSE a[x]]

\* an object reference that may be null
NullRef == [null |-> TRUE, obj |-> EmptyObj]
Ref(o) == [null |-> FALSE, obj |-> o]

\* truthiness of an object-or-null: every object is truthy, null is not
RefTruthy(r) == ~r.null

(* ------------------------------ constants ------------------------------ *)
API_HOST == "https://api.bigcommerce.com"
KeyAT == "STENCIL_ACCESS_TOKEN"
KeyGT == "STENCIL_GITHUB_TOKEN"
EnvKeys == {KeyAT, KeyGT}
secretFieldsSet == {"accessToken", "githubToken"}

\* the envFile argument: a path, or undefined when save() is called without it
\* (_migrateOldConfig).  The injected fs decides what an undefined path means:
\* every file-system call of the upsert may throw on it, as Node's fs does, or
\* act on a file of its own.
EnvPath == ".env"
NoPath == "<undefined>"
EnvPaths == {EnvPath, NoPath}

(* ------------------------- environment-file text ----------------------- *)
EOL == "\n"

RECURSIVE Split(_)
\* text.split(os.EOL): the lines between the separators; "" splits to [""]
Split(text) ==
    IF \A i \in 1..Len(text) : text[i] # EOL
    THEN <<text>>
    ELSE LET i == CHOOSE j \in 1..Len(text) :
                      text[j] = EOL /\ \A k \in 1..(j-1) : text[k] # EOL
         IN  <<SubSeq(text, 1, i-1)>> \o Split(SubSeq(text, i+1, Len(text)))

RECURSIVE Join(_)
\* lines.join(os.EOL): [] joins to ""
Join(lines) ==
    IF Len(lines) = 0 THEN <<>>
    ELSE IF Len(lines) = 1 THEN lines[1]
    ELSE lines[1] \o <<EOL>> \o Join(Tail(lines))

\* a filter that keeps every line
KeepLine_all(v) == TRUE

\* the predicate of .filter((v) => !v): true of the lines that are kept
KeepLine(v) == v = <<>>

RECURSIVE Filter(_)
Filter(lines) ==
    IF Len(lines) = 0 THEN <<>>
    ELSE (IF KeepLine(Head(lines)) THEN <<Head(lines)>> ELSE <<>>) \o Filter(Tail(lines))

\* (?<!#\s*) fails at position i: a '#' and then only whitespace precede it
Commented(line, i) ==
    \E j \in 1..(i-1) : line[j] = "#" /\ \A k \in (j+1)..(i-1) : line[k] = " "

\* line.match(new RegExp(`(?<!#\\s*)${key}(?==)`)): key, then '=', anywhere in the line
LineMatches(line, key) ==
    \E i \in 1..Len(line) :
        /\ line[i] = key
        /\ i + 1 <= Len(line)
        /\ line[i+1] = "="
        /\ ~Commented(line, i)

\* vars.indexOf(vars.find(...)): index of the first matching line, 0 for -1
TargetIndex(vars, key) ==
    IF \E i \in 1..Len(vars) : LineMatches(vars[i], key)
    THEN CHOOSE i \in 1..Len(vars) :
             LineMatches(vars[i], key) /\ \A j \in 1..(i-1) : ~LineMatches(vars[j], key)
    ELSE 0

\* `${key}=${value || ''}`
EnvLine(key, value) ==
    IF OrEmpty(value) = "" THEN <<key, "=">> ELSE <<key, "=", OrEmpty(value)>>

\* the text written by _setEnvValueToFile for a file holding `text`
UpsertText(text, key, value) ==
    LET vars == Filter(Split(text))
        targetIndex == TargetIndex(vars, key)
        out == IF targetIndex # 0
               THEN [vars EXCEPT ![targetIndex] = EnvLine(key, value)]
               ELSE Append(vars, EnvLine(key, value))
    IN  Join(out)

NoFile == [exists |-> FALSE, data |-> <<>>]
TextFile(t) == [exists |-> TRUE, data |-> t]

\* where a file-system call of _setEnvValueToFile can throw
UpsertFaults == {"none", "open", "read", "write"}

\* _setEnvValueToFile(key, value, envFile) on file f; fault names the call that throws
SetEnvValueToFile(f, key, value, fault) ==
    IF ~f.exists /\ fault = "open" THEN [ok |-> FALSE, file |-> f]
    ELSE LET opened == IF f.exists THEN f ELSE TextFile(<<>>)
         IN  IF fault \in {"read", "write"}
             THEN [ok |-> FALSE, file |-> opened]
             ELSE [ok |-> TRUE, file |-> TextFile(UpsertText(opened.data, key, value))]

(* ----------------------------- configurations -------------------------- *)
Keys == {"normalStoreUrl", "customLayouts", "apiHost", "accessToken", "githubToken"}
Absent == "<absent>"

\* the values a key takes in the configurations the model enumerates
KeyValues(k) ==
    CASE k = "normalStoreUrl" -> {"", "http://x"}
      [] k = "customLayouts"  -> {JsTrue}
      [] k = "apiHost"        -> {"", "https://custom"}
      [] k = "accessToken"    -> {"abc"}
      [] k = "githubToken"    -> {"ghp"}

AllValues == UNION {KeyValues(k) : k \in Keys}

\* the object holding the keys a choice does not mark absent
ObjOf(t) == [k \in {x \in DOMAIN t : t[x] # Absent} |-> t[k]]

Configs ==
    {ObjOf(t) : t \in {u \in [Keys -> AllValues \cup {Absent}] :
                          \A k \in Keys : u[k] \in KeyValues(k) \cup {Absent}}}

\* configurations without secret keys
GeneralConfigs == {c \in Configs : (DOMAIN c) \cap secretFieldsSet = {}}

(* ------------------------------ JSON files ----------------------------- *)
\* a JSON file: absent, unparsable, or the text of an object
NoJson == [exists |-> FALSE, ok |-> FALSE, obj |-> EmptyObj]
BadJson == [exists |-> TRUE, ok |-> FALSE, obj |-> EmptyObj]

\* JSON.stringify(obj, null, 2): a key whose value is undefined is left out
Stringify(o) ==
    [exists |-> TRUE, ok |-> TRUE,
     obj |-> [k \in {x \in DOMAIN o : o[x] # JsUndefined} |-> o[k]]]

\* fsUtils.parseJsonFile: the object of a parsable file
ParseJson(f) == f.obj

(* ------------------------------- results ------------------------------- *)
NoResult == [kind |-> "none", val |-> EmptyObj, err |-> ""]
Value(c) == [kind |-> "value", val |-> c, err |-> ""]
Null == [kind |-> "null", val |-> EmptyObj, err |-> ""]
Done == [kind |-> "ok", val |-> EmptyObj, err |-> ""]
Error(e) == [kind |-> "error", val |-> EmptyObj, err |-> e]

ErrUninitialized == "Please run $ stencil init first."
ErrOutdated == "Error: Your stencil config is outdated. Please run $ stencil init again."
ErrParse == "parseJsonFile failed"
ErrIO == "file system call failed"

LogDeprecated == "Detected a deprecated .stencil file."
LogFallback == "No api host found in config file, falling back"
LogReplaced == "The deprecated .stencil file was successfully replaced."

(* ----------------------------- pure methods ---------------------------- *)
\* a split that leaves the secret keys in the general part as well
SplitStencilConfig_keepSecrets(config) ==
    [secretsConfig |-> [k \in (DOMAIN config) \cap secretFieldsSet |-> config[k]],
     generalConfig |-> config]

\* _splitStencilConfig
SplitStencilConfig(config) ==
    [secretsConfig |-> [k \in (DOMAIN config) \cap secretFieldsSet |-> config[k]],
     generalConfig |-> [k \in (DOMAIN config) \ secretFieldsSet |-> config[k]]]

\* a required-field test that fails only when both fields are missing
MissingFields_both(config) ==
    Falsy(Get(config, "normalStoreUrl")) /\ Falsy(Get(config, "customLayouts"))

\* the required-field test of _validateStencilConfig
MissingFields(config) ==
    Falsy(Get(config, "normalStoreUrl")) \/ Falsy(Get(config, "customLayouts"))

\* a validation that sets the default host whether or not one is present
ValidateStencilConfig_overwrite(config, ignoreMissingFields) ==
    IF ~ignoreMissingFields /\ MissingFields(config)
    THEN [res |-> Error(ErrOutdated), logs |-> <<>>]
    ELSE [res |-> Value(Put(config, "apiHost", API_HOST)),
          logs |-> IF Falsy(Get(config, "apiHost")) THEN <<LogFallback>> ELSE <<>>]

\* _validateStencilConfig: the result and the messages logged
ValidateStencilConfig(config, ignoreMissingFields) ==
    IF ~ignoreMissingFields /\ MissingFields(config)
    THEN [res |-> Error(ErrOutdated), logs |-> <<>>]
    ELSE IF Falsy(Get(config, "apiHost"))
         THEN [res |-> Value(Put(config, "apiHost", API_HOST)), logs |-> <<LogFallback>>]
         ELSE [res |-> Value(config), logs |-> <<>>]

\* process.env.X || null
EnvOrNull(v) == IF Falsy(v) THEN JsNull ELSE v

\* _getSecretsConfigFromEnvVars
GetSecretsConfigFromEnvVars(env) ==
    Ref([k \in secretFieldsSet |->
            IF k = "accessToken" THEN EnvOrNull(env[KeyAT]) ELSE EnvOrNull(env[KeyGT])])

\* read(), lines 57-68: what read does once generalConfig is known
ReadCurrent(generalConfig, env, ignoreFileNotExists, ignoreMissingFields) ==
    LET secretsConfig == GetSecretsConfigFromEnvVars(env)
    IN  IF RefTruthy(generalConfig) \/ RefTruthy(secretsConfig)
        THEN ValidateStencilConfig(Spread(generalConfig.obj, secretsConfig.obj),
                                   ignoreMissingFields)
        ELSE IF ignoreFileNotExists
             THEN [res |-> Null, logs |-> <<>>]
             ELSE [res |-> Error(ErrUninitialized), logs |-> <<>>]

(* -------------------------------- state -------------------------------- *)
VARIABLES
    oldFile,        \* the legacy file .stencil
    confFile,       \* the general file config.stencil.json
    envFiles,       \* the environment files, by the envFile argument
    envVars,        \* process.env
    pc,             \* where each call stands
    args,           \* the arguments of each call
    parsedConfig,   \* read(): parsedConfig of the legacy branch
    pending,        \* save(): the split configuration, envFile and the caller
    result,         \* what each call returned or threw
    log,            \* the messages each call logged
    start,          \* the files as they were when each call started
    last,           \* the call a caller made before its current one
    nCalls          \* the calls made so far

vars == <<oldFile, confFile, envFiles, envVars, pc, args, parsedConfig, pending,
          result, log, start, last, nCalls>>

Procs == {1, 2}
\* the caller of the sequential specifications
SeqProcs == {1}

NoArgs ==
    [op |-> "none", ignoreFileNotExists |-> FALSE, ignoreMissingFields |-> FALSE,
     config |-> EmptyObj, envFile |-> NoPath, key |-> "", value |-> ""]
ReadArgs(ifne, imf) ==
    [NoArgs EXCEPT !.op = "read", !.ignoreFileNotExists = ifne, !.ignoreMissingFields = imf]
SaveArgs(config, envFile) ==
    [NoArgs EXCEPT !.op = "save", !.config = config, !.envFile = envFile]
SetEnvArgs(key, value, envFile) ==
    [NoArgs EXCEPT !.op = "setEnv", !.key = key, !.value = value, !.envFile = envFile]

NoPending ==
    [generalConfig |-> EmptyObj, secretsConfig |-> EmptyObj, envFile |-> NoPath,
     caller |-> "none"]

Disk == [oldFile |-> oldFile, confFile |-> confFile, envFiles |-> envFiles]
NoDisk == [oldFile |-> NoJson, confFile |-> NoJson, envFiles |-> [q \in EnvPaths |-> NoFile]]
NoLast == [args |-> NoArgs, result |-> NoResult, start |-> NoDisk, end |-> NoDisk]

(* --------------------------- initial file states ----------------------- *)
\* the lines an environment file is made of before the first call
LineCatalogue ==
    { <<>>,
      <<"#", " ", KeyAT, "=", "old">>,
      <<KeyAT, "=", "old">>,
      <<KeyGT, "=", "old">>,
      <<"OTHER", "=", "x">>,
      <<"MY_", KeyAT, "=", "old">> }

LineLists == UNION {[1..n -> LineCatalogue] : n \in 0..MaxLines}
EnvTexts == {Join(ls) : ls \in LineLists}
EnvFileStates == {NoFile} \cup {TextFile(t) : t \in EnvTexts}

\* a general file written before secrets were split off
StaleConfig ==
    [k \in {"normalStoreUrl", "customLayouts", "accessToken"} |->
        IF k = "normalStoreUrl" THEN "http://old"
        ELSE IF k = "customLayouts" THEN JsTrue ELSE "infile"]

LegacyFiles == {BadJson} \cup {Stringify(c) : c \in Configs}
ConfFiles == {NoJson, BadJson, Stringify(StaleConfig)} \cup {Stringify(c) : c \in GeneralConfigs}
EnvVarStates ==
    {e \in [EnvKeys -> {JsUndefined, "", "tok123"}] : e[KeyGT] # ""}
NoEnvVars == [k \in EnvKeys |-> JsUndefined]

InitCalls ==
    /\ pc = [p \in Procs |-> "idle"]
    /\ args = [p \in Procs |-> NoArgs]
    /\ parsedConfig = [p \in Procs |-> EmptyObj]
    /\ pending = [p \in Procs |-> NoPending]
    /\ result = [p \in Procs |-> NoResult]
    /\ log = [p \in Procs |-> <<>>]
    /\ start = [p \in Procs |-> NoDisk]
    /\ last = [p \in Procs |-> NoLast]
    /\ nCalls = 0

\* the environment files the save scenarios start from
SeedTexts ==
    { <<>>,
      Join(<<<<"#", " ", KeyAT, "=", "old">>, <<"OTHER", "=", "x">>>>),
      Join(<<<<KeyAT, "=", "old">>, <<KeyGT, "=", "old">>>>),
      Join(<<<<"OTHER", "=", "x">>, <<>>>>) }
SeedFiles == {NoFile} \cup {TextFile(t) : t \in SeedTexts}

\* a project in the legacy format, or one in the current format
Init ==
    /\ InitCalls
    /\ envFiles = [q \in EnvPaths |-> NoFile]
    /\ \/ /\ oldFile \in LegacyFiles
          /\ confFile \in {NoJson, Stringify(StaleConfig)}
          /\ envVars = NoEnvVars
       \/ /\ oldFile = NoJson
          /\ confFile \in ConfFiles
          /\ envVars \in EnvVarStates

\* a project in the current format, about to be saved
InitSave ==
    /\ InitCalls
    /\ oldFile = NoJson
    /\ confFile \in {NoJson, Stringify(StaleConfig)}
    /\ envVars \in {NoEnvVars, [k \in EnvKeys |-> "tok123"]}
    /\ \E f \in SeedFiles : envFiles = [q \in EnvPaths |-> IF q = EnvPath THEN f ELSE NoFile]

(* ------------------------------- actions -------------------------------- *)
CanCall(p) == pc[p] \in {"idle", "done"} /\ nCalls < MaxCalls

\* bookkeeping of a call that starts
Begin(p, a) ==
    /\ nCalls' = nCalls + 1
    /\ args' = [args EXCEPT ![p] = a]
    /\ start' = [start EXCEPT ![p] = Disk]
    /\ last' = [last EXCEPT ![p] = [args |-> args[p], result |-> result[p],
                                    start |-> start[p], end |-> Disk]]

\* a call ends with result r
Finish(p, r) ==
    /\ pc' = [pc EXCEPT ![p] = "done"]
    /\ result' = [result EXCEPT ![p] = r]

\* read(), lines 38-39 and 53: the existsSync tests, and lines 57-68 when
\* neither file exists
CallRead(p, ifne, imf) ==
    /\ CanCall(p)
    /\ Begin(p, ReadArgs(ifne, imf))
    /\ parsedConfig' = [parsedConfig EXCEPT ![p] = EmptyObj]
    /\ pending' = [pending EXCEPT ![p] = NoPending]
    /\ IF oldFile.exists
       THEN /\ pc' = [pc EXCEPT ![p] = "parseOld"]
            /\ result' = [result EXCEPT ![p] = NoResult]
            /\ log' = [log EXCEPT ![p] = <<>>]
       ELSE IF confFile.exists
       THEN /\ pc' = [pc EXCEPT ![p] = "parseConf"]
            /\ result' = [result EXCEPT ![p] = NoResult]
            /\ log' = [log EXCEPT ![p] = <<>>]
       ELSE LET out == ReadCurrent(NullRef, envVars, ifne, imf)
            IN  /\ Finish(p, out.res)
                /\ log' = [log EXCEPT ![p] = out.logs]
    /\ UNCHANGED <<oldFile, confFile, envFiles, envVars>>

\* a read that lets the parse failure of the legacy file through
ParseOldConfig_strict(p) ==
    /\ pc[p] = "parseOld"
    /\ IF oldFile.exists /\ oldFile.ok
       THEN LET split == SplitStencilConfig(ParseJson(oldFile))
            IN  /\ parsedConfig' = [parsedConfig EXCEPT ![p] = ParseJson(oldFile)]
                /\ pending' = [pending EXCEPT ![p] =
                       [generalConfig |-> split.generalConfig,
                        secretsConfig |-> split.secretsConfig,
                        envFile |-> NoPath, caller |-> "migrate"]]
                /\ log' = [log EXCEPT ![p] = Append(log[p], LogDeprecated)]
                /\ pc' = [pc EXCEPT ![p] = "writeFile"]
                /\ UNCHANGED result
       ELSE /\ Finish(p, Error(ErrParse))
            /\ UNCHANGED <<parsedConfig, pending, log>>
    /\ UNCHANGED <<oldFile, confFile, envFiles, envVars, args, start, last, nCalls>>

\* a migration that deletes the legacy file before it saves
ParseOldConfig_unlinkFirst(p) ==
    /\ pc[p] = "parseOld"
    /\ LET config == IF oldFile.exists /\ oldFile.ok THEN ParseJson(oldFile) ELSE EmptyObj
           split == SplitStencilConfig(config)
       IN  /\ parsedConfig' = [parsedConfig EXCEPT ![p] = config]
           /\ pending' = [pending EXCEPT ![p] =
                  [generalConfig |-> split.generalConfig,
                   secretsConfig |-> split.secretsConfig,
                   envFile |-> NoPath, caller |-> "migrate"]]
    /\ oldFile' = NoJson
    /\ log' = [log EXCEPT ![p] = Append(log[p], LogDeprecated)]
    /\ pc' = [pc EXCEPT ![p] = "writeFile"]
    /\ UNCHANGED <<confFile, envFiles, envVars, args, result, start, last, nCalls>>

\* read(), lines 41-49, _migrateOldConfig lines 187-192 and save() lines 75-77:
\* the legacy file is parsed and the write of the general file is started
ParseOldConfig(p) ==
    /\ pc[p] = "parseOld"
    /\ LET config == IF oldFile.exists /\ oldFile.ok THEN ParseJson(oldFile) ELSE EmptyObj
           split == SplitStencilConfig(config)
       IN  /\ parsedConfig' = [parsedConfig EXCEPT ![p] = config]
           /\ pending' = [pending EXCEPT ![p] =
                  [generalConfig |-> split.generalConfig,
                   secretsConfig |-> split.secretsConfig,
                   envFile |-> NoPath, caller |-> "migrate"]]
    /\ log' = [log EXCEPT ![p] = Append(log[p], LogDeprecated)]
    /\ pc' = [pc EXCEPT ![p] = "writeFile"]
    /\ UNCHANGED <<oldFile, confFile, envFiles, envVars, args, result, start, last, nCalls>>

\* a read that writes the validated configuration back to the general file
ParseConfig_persist(p) ==
    /\ pc[p] = "parseConf"
    /\ LET out == IF confFile.exists /\ confFile.ok
                  THEN ReadCurrent(Ref(ParseJson(confFile)), envVars,
                                   args[p].ignoreFileNotExists, args[p].ignoreMissingFields)
                  ELSE [res |-> Error(ErrParse), logs |-> <<>>]
       IN  /\ Finish(p, out.res)
           /\ log' = [log EXCEPT ![p] = out.logs]
           /\ confFile' = IF out.res.kind = "value" THEN Stringify(out.res.val) ELSE confFile
    /\ UNCHANGED <<oldFile, envFiles, envVars, args, parsedConfig, pending,
                   start, last, nCalls>>

\* a read that tolerates a broken general file as it tolerates a broken legacy file
ParseConfig_tolerant(p) ==
    /\ pc[p] = "parseConf"
    /\ LET out == ReadCurrent(Ref(ParseJson(confFile)), envVars,
                              args[p].ignoreFileNotExists, args[p].ignoreMissingFields)
       IN  /\ Finish(p, out.res)
           /\ log' = [log EXCEPT ![p] = out.logs]
    /\ UNCHANGED <<oldFile, confFile, envFiles, envVars, args, parsedConfig, pending,
                   start, last, nCalls>>

\* read(), lines 54-68: the general file is parsed, merged and validated
ParseConfig(p) ==
    /\ pc[p] = "parseConf"
    /\ LET out == IF confFile.exists /\ confFile.ok
                  THEN ReadCurrent(Ref(ParseJson(confFile)), envVars,
                                   args[p].ignoreFileNotExists, args[p].ignoreMissingFields)
                  ELSE [res |-> Error(ErrParse), logs |-> <<>>]
       IN  /\ Finish(p, out.res)
           /\ log' = [log EXCEPT ![p] = out.logs]
    /\ UNCHANGED <<oldFile, confFile, envFiles, envVars, args, parsedConfig, pending,
                   start, last, nCalls>>

\* save(), lines 75-77: the configuration is split and the write is started
CallSave(p, config, envFile) ==
    /\ CanCall(p)
    /\ Begin(p, SaveArgs(config, envFile))
    /\ LET split == SplitStencilConfig(config)
       IN  pending' = [pending EXCEPT ![p] =
               [generalConfig |-> split.generalConfig,
                secretsConfig |-> split.secretsConfig,
                envFile |-> envFile, caller |-> "save"]]
    /\ parsedConfig' = [parsedConfig EXCEPT ![p] = EmptyObj]
    /\ pc' = [pc EXCEPT ![p] = "writeFile"]
    /\ result' = [result EXCEPT ![p] = NoResult]
    /\ log' = [log EXCEPT ![p] = <<>>]
    /\ UNCHANGED <<oldFile, confFile, envFiles, envVars>>

\* how fs.promises.writeFile settles: the file is replaced, or the call is
\* rejected with the file untouched or cut short
WriteOutcomes == {"written", "rejected", "truncated"}

\* a write that merges the new entries into the entries the file holds
WriteFile_merge(p, outcome) ==
    /\ pc[p] = "writeFile"
    /\ confFile' = IF outcome = "written"
                   THEN Stringify(Spread(confFile.obj, pending[p].generalConfig))
                   ELSE IF outcome = "truncated" THEN BadJson ELSE confFile
    /\ IF outcome = "written"
       THEN /\ pc' = [pc EXCEPT ![p] = "setEnv"]
            /\ UNCHANGED result
       ELSE Finish(p, Error(ErrIO))
    /\ UNCHANGED <<oldFile, envFiles, envVars, args, parsedConfig, pending, log,
                   start, last, nCalls>>

\* save(), line 77: the write of the general file settles
WriteFile(p, outcome) ==
    /\ pc[p] = "writeFile"
    /\ confFile' = IF outcome = "written" THEN Stringify(pending[p].generalConfig)
                   ELSE IF outcome = "truncated" THEN BadJson ELSE confFile
    /\ IF outcome = "written"
       THEN /\ pc' = [pc EXCEPT ![p] = "setEnv"]
            /\ UNCHANGED result
       ELSE Finish(p, Error(ErrIO))
    /\ UNCHANGED <<oldFile, envFiles, envVars, args, parsedConfig, pending, log,
                   start, last, nCalls>>

\* a migration that deletes the legacy file also when an upsert has thrown
SaveSetEnv_finallyUnlink(p, f1, f2) ==
    /\ pc[p] = "setEnv"
    /\ LET path == pending[p].envFile
           r1 == SetEnvValueToFile(envFiles[path], KeyAT,
                                   Get(pending[p].secretsConfig, "accessToken"), f1)
           r2 == SetEnvValueToFile(r1.file, KeyGT,
                                   Get(pending[p].secretsConfig, "githubToken"), f2)
           failed == ~r1.ok \/ ~r2.ok
       IN  /\ envFiles' = [envFiles EXCEPT ![path] = IF r1.ok THEN r2.file ELSE r1.file]
           /\ oldFile' = IF failed /\ pending[p].caller = "migrate" THEN NoJson ELSE oldFile
           /\ IF failed THEN Finish(p, Error(ErrIO))
              ELSE IF pending[p].caller = "migrate"
              THEN pc' = [pc EXCEPT ![p] = "unlink"] /\ UNCHANGED result
              ELSE Finish(p, Done)
    /\ UNCHANGED <<confFile, envVars, args, parsedConfig, pending, log,
                   start, last, nCalls>>

\* save(), lines 80-81: both secrets are upserted; f1 and f2 name the
\* file-system call of each upsert that throws
SaveSetEnv(p, f1, f2) ==
    /\ pc[p] = "setEnv"
    /\ LET path == pending[p].envFile
           r1 == SetEnvValueToFile(envFiles[path], KeyAT,
                                   Get(pending[p].secretsConfig, "accessToken"), f1)
           r2 == SetEnvValueToFile(r1.file, KeyGT,
                                   Get(pending[p].secretsConfig, "githubToken"), f2)
       IN  IF ~r1.ok
           THEN /\ envFiles' = [envFiles EXCEPT ![path] = r1.file]
                /\ Finish(p, Error(ErrIO))
           ELSE /\ envFiles' = [envFiles EXCEPT ![path] = r2.file]
                /\ IF ~r2.ok THEN Finish(p, Error(ErrIO))
                   ELSE IF pending[p].caller = "migrate"
                   THEN pc' = [pc EXCEPT ![p] = "unlink"] /\ UNCHANGED result
                   ELSE Finish(p, Done)
    /\ UNCHANGED <<oldFile, confFile, envVars, args, parsedConfig, pending, log,
                   start, last, nCalls>>

\* a migration that validates with ignoreFileNotExists in place of ignoreMissingFields
Unlink_flagMixup(p, removed) ==
    /\ pc[p] = "unlink"
    /\ IF removed /\ oldFile.exists
       THEN LET out == ValidateStencilConfig(parsedConfig[p], args[p].ignoreFileNotExists)
            IN  /\ oldFile' = NoJson
                /\ Finish(p, out.res)
                /\ log' = [log EXCEPT ![p] = log[p] \o <<LogReplaced>> \o out.logs]
       ELSE /\ Finish(p, Error(ErrIO))
            /\ UNCHANGED <<oldFile, log>>
    /\ UNCHANGED <<confFile, envFiles, envVars, args, parsedConfig, pending,
                   start, last, nCalls>>

\* a migration whose deletion reports success and leaves the legacy file in place
Unlink_keepsFile(p, removed) ==
    /\ pc[p] = "unlink"
    /\ IF removed /\ oldFile.exists
       THEN LET out == ValidateStencilConfig(parsedConfig[p], args[p].ignoreMissingFields)
            IN  /\ Finish(p, out.res)
                /\ log' = [log EXCEPT ![p] = log[p] \o <<LogReplaced>> \o out.logs]
       ELSE /\ Finish(p, Error(ErrIO))
            /\ UNCHANGED log
    /\ UNCHANGED <<oldFile, confFile, envFiles, envVars, args, parsedConfig, pending,
                   start, last, nCalls>>

\* _migrateOldConfig, lines 193-199, and read(), line 50: the legacy file is
\* deleted and the parsed configuration validated, or the deletion is rejected
Unlink(p, removed) ==
    /\ pc[p] = "unlink"
    /\ IF removed /\ oldFile.exists
       THEN LET out == ValidateStencilConfig(parsedConfig[p], args[p].ignoreMissingFields)
            IN  /\ oldFile' = NoJson
                /\ Finish(p, out.res)
                /\ log' = [log EXCEPT ![p] = log[p] \o <<LogReplaced>> \o out.logs]
       ELSE /\ Finish(p, Error(ErrIO))
            /\ UNCHANGED <<oldFile, log>>
    /\ UNCHANGED <<confFile, envFiles, envVars, args, parsedConfig, pending,
                   start, last, nCalls>>

\* _setEnvValueToFile called on its own, lines 89-109
CallSetEnv(p, key, value, envFile, fault) ==
    /\ CanCall(p)
    /\ Begin(p, SetEnvArgs(key, value, envFile))
    /\ LET r == SetEnvValueToFile(envFiles[envFile], key, value, fault)
       IN  /\ envFiles' = [envFiles EXCEPT ![envFile] = r.file]
           /\ Finish(p, IF r.ok THEN Done ELSE Error(ErrIO))
    /\ parsedConfig' = [parsedConfig EXCEPT ![p] = EmptyObj]
    /\ pending' = [pending EXCEPT ![p] = NoPending]
    /\ log' = [log EXCEPT ![p] = <<>>]
    /\ UNCHANGED <<oldFile, confFile, envVars>>

\* the caller reads, again and again
Next ==
    \E p \in SeqProcs :
        \/ \E ifne \in BOOLEAN, imf \in BOOLEAN : CallRead(p, ifne, imf)
        \/ ParseOldConfig(p)
        \/ ParseConfig(p)
        \/ \E outcome \in WriteOutcomes : WriteFile(p, outcome)
        \/ \E f1 \in UpsertFaults, f2 \in UpsertFaults : SaveSetEnv(p, f1, f2)
        \/ \E removed \in BOOLEAN : Unlink(p, removed)

Spec == Init /\ [][Next]_vars

\* the caller saves a configuration and then reads
NextSave ==
    \E p \in SeqProcs :
        \/ nCalls = 0 /\ \E config \in Configs : CallSave(p, config, EnvPath)
        \/ \E outcome \in WriteOutcomes : WriteFile(p, outcome)
        \/ \E f1 \in UpsertFaults, f2 \in UpsertFaults : SaveSetEnv(p, f1, f2)
        \/ nCalls > 0 /\ \E ifne \in BOOLEAN, imf \in BOOLEAN : CallRead(p, ifne, imf)
        \/ ParseConfig(p)

SpecSave == InitSave /\ [][NextSave]_vars

\* the configurations of two callers that save at the same time
ConcConfigs ==
    {c \in Configs : Get(c, "customLayouts") = JsTrue}

\* the environment file the two callers find: missing, or holding both secrets
ConcSeeds ==
    {NoFile, TextFile(Join(<<<<KeyAT, "=", "old">>, <<KeyGT, "=", "old">>>>))}

\* a project in the current format, about to be saved by two callers
InitConc ==
    /\ InitCalls
    /\ oldFile = NoJson
    /\ confFile = NoJson
    /\ envVars = NoEnvVars
    /\ \E f \in ConcSeeds : envFiles = [q \in EnvPaths |-> IF q = EnvPath THEN f ELSE NoFile]

\* two save() calls in flight: each suspends at the await of line 77, the write
\* takes effect on the file, and the call resumes with lines 80-81 later
NextConc ==
    \E p \in Procs :
        \/ pc[p] = "idle" /\ \E config \in ConcConfigs : CallSave(p, config, EnvPath)
        \/ \E outcome \in WriteOutcomes : WriteFile(p, outcome)
        \/ \E f1 \in UpsertFaults, f2 \in UpsertFaults : SaveSetEnv(p, f1, f2)

SpecConc == InitConc /\ [][NextConc]_vars

\* the values _setEnvValueToFile is called with: none of them holds a line separator
UpsertValues == {JsUndefined, "", "v1", "v2"}

\* an environment file of up to MaxLines lines, about to be upserted
InitUpsert ==
    /\ InitCalls
    /\ oldFile = NoJson
    /\ confFile = NoJson
    /\ envVars = NoEnvVars
    /\ \E f \in EnvFileStates : envFiles = [q \in EnvPaths |-> IF q = EnvPath THEN f ELSE NoFile]

\* the caller upserts, again and again
NextUpsert ==
    \E p \in SeqProcs, key \in EnvKeys, value \in UpsertValues, fault \in UpsertFaults :
        CallSetEnv(p, key, value, EnvPath, fault)

SpecUpsert == InitUpsert /\ [][NextUpsert]_vars

(* ------------------------------ properties ----------------------------- *)
\* text holds the line
HasLine(text, line) == \E i \in 1..Len(Split(text)) : Split(text)[i] = line

\* the line KEY=secret, KEY= when the secret is absent or empty
SecretLine(key, secret) ==
    IF secret \in {JsUndefined, JsNull, ""} THEN <<key, "=">> ELSE <<key, "=", secret>>

\* the line sets the key and no '#' comes before the key
IsKeyLine(line, key) ==
    \E i \in 1..Len(line) :
        /\ line[i] = key
        /\ i < Len(line)
        /\ line[i+1] = "="
        /\ \A j \in 1..(i-1) : line[j] # "#"

KeyLines(text, key) == {i \in 1..Len(Split(text)) : IsKeyLine(Split(text)[i], key)}

CommentLine == <<"#", " ", KeyAT, "=", "old">>

\* a call of operation o has returned normally
Returned(p, o) == pc[p] = "done" /\ args[p].op = o /\ result[p].kind \in {"ok", "value", "null"}

\* C1: after a successful save(config, envFile) the environment file holds the
\* line STENCIL_ACCESS_TOKEN=<accessToken or empty> and the line
\* STENCIL_GITHUB_TOKEN=<githubToken or empty>.
C1_SaveReflectsSecrets ==
    \A p \in SeqProcs :
        Returned(p, "save") =>
            LET text == envFiles[args[p].envFile].data
            IN  /\ HasLine(text, SecretLine(KeyAT, Get(args[p].config, "accessToken")))
                /\ HasLine(text, SecretLine(KeyGT, Get(args[p].config, "githubToken")))

\* the values the lines of a key carry in the text
Recovered(text, key) ==
    {v \in AllValues \cup {"", "old"} : HasLine(text, SecretLine(key, v))}

\* C2: a read() that returns right after a successful save(config, envFile) of a
\* configuration with the required fields returns config's non-secret fields,
\* and the environment file's lines carry exactly config's two secrets.
C2_RoundTrip ==
    \A p \in SeqProcs :
        ( /\ Returned(p, "read")
          /\ last[p].args.op = "save"
          /\ last[p].result.kind = "ok"
          /\ ~Falsy(Get(last[p].args.config, "normalStoreUrl"))
          /\ ~Falsy(Get(last[p].args.config, "customLayouts")) )
        => LET config == last[p].args.config
               text == envFiles[last[p].args.envFile].data
           IN  /\ result[p].kind = "value"
               /\ \A k \in (DOMAIN config) \ secretFieldsSet :
                      ~Falsy(config[k]) => Get(result[p].val, k) = config[k]
               /\ Recovered(text, KeyAT) = {OrEmpty(Get(config, "accessToken"))}
               /\ Recovered(text, KeyGT) = {OrEmpty(Get(config, "githubToken"))}

\* C3: an upsert of STENCIL_ACCESS_TOKEN into a file holding the line
\* `# STENCIL_ACCESS_TOKEN=old` keeps that line and adds STENCIL_ACCESS_TOKEN=v.
C3_CommentExcluded ==
    \A p \in SeqProcs :
        ( /\ Returned(p, "setEnv")
          /\ args[p].key = KeyAT
          /\ HasLine(start[p].envFiles[args[p].envFile].data, CommentLine) )
        => LET text == envFiles[args[p].envFile].data
           IN  /\ HasLine(text, CommentLine)
               /\ HasLine(text, SecretLine(KeyAT, args[p].value))

\* the same upsert was made twice in a row, and both calls returned
UpsertedTwice(p) ==
    /\ Returned(p, "setEnv")
    /\ last[p].args = args[p]
    /\ last[p].result.kind = "ok"

\* C4: after two upserts in a row of the same key and value the file holds
\* exactly one uncommented line for the key, and the second upsert left the
\* file as the first one had left it.
C4_UpsertIdempotent ==
    \A p \in SeqProcs :
        UpsertedTwice(p) =>
            /\ envFiles[args[p].envFile] = start[p].envFiles[args[p].envFile]
            /\ Cardinality(KeyLines(envFiles[args[p].envFile].data, args[p].key)) = 1

\* two upserts in a row into a file that held lines of the key, one of them a comment
C4_Witness ==
    \E p \in SeqProcs :
        /\ UpsertedTwice(p)
        /\ args[p].key = KeyAT
        /\ KeyLines(last[p].start.envFiles[args[p].envFile].data, KeyAT) # {}
        /\ HasLine(last[p].start.envFiles[args[p].envFile].data, CommentLine)

\* a read() that found the legacy file has ended
ReadLegacy(p) == pc[p] = "done" /\ args[p].op = "read" /\ start[p].oldFile.exists

\* C5: the legacy file changes only by being deleted, and only once the general
\* file and the environment file hold what save() writes; a read() in which
\* save() (or the deletion) threw ends in an error with the legacy file as it was.
C5_WriteGatesDelete ==
    /\ [][ oldFile' # oldFile =>
             /\ ~oldFile'.exists
             /\ \E p \in SeqProcs :
                    /\ pending[p].caller = "migrate"
                    /\ confFile = Stringify(pending[p].generalConfig)
                    /\ envFiles[NoPath].exists
                    /\ HasLine(envFiles[NoPath].data,
                               SecretLine(KeyGT, Get(pending[p].secretsConfig, "githubToken"))) ]_vars
    /\ [](\A p \in SeqProcs :
             (ReadLegacy(p) /\ result[p].err = ErrIO) =>
                 /\ result[p].kind = "error"
                 /\ oldFile.exists
                 /\ oldFile = start[p].oldFile)

\* save() threw after the general file was written: the legacy file is still there
C5_Witness ==
    \E p \in SeqProcs :
        /\ ReadLegacy(p)
        /\ result[p].err = ErrIO
        /\ start[p].oldFile.ok
        /\ confFile # start[p].confFile
        /\ confFile = Stringify(pending[p].generalConfig)
        /\ envFiles[NoPath].exists
        /\ oldFile = start[p].oldFile

\* C6: a read() that returns after finding a legacy file with the required
\* fields and no apiHost, and no general file, leaves the general file holding
\* the legacy non-secret fields plus apiHost = the default host, the legacy
\* file deleted and the default host in the returned object.
C6_MigrationResult ==
    \A p \in SeqProcs :
        ( /\ ReadLegacy(p)
          /\ result[p].kind = "value"
          /\ start[p].oldFile.ok
          /\ ~Falsy(Get(start[p].oldFile.obj, "normalStoreUrl"))
          /\ ~Falsy(Get(start[p].oldFile.obj, "customLayouts"))
          /\ "apiHost" \notin DOMAIN start[p].oldFile.obj
          /\ ~start[p].confFile.exists )
        => LET legacy == start[p].oldFile.obj
               general == [k \in (DOMAIN legacy) \ {"accessToken", "githubToken"} |-> legacy[k]]
           IN  /\ ~oldFile.exists
               /\ Get(result[p].val, "apiHost") = API_HOST
               /\ confFile.exists /\ confFile.ok
               /\ confFile.obj = Put(general, "apiHost", API_HOST)

\* a read() has ended in a directory with no legacy file, no general file and
\* no secret environment variable
ReadNothing(p) ==
    /\ pc[p] = "done" /\ args[p].op = "read"
    /\ ~start[p].oldFile.exists
    /\ ~start[p].confFile.exists
    /\ envVars = NoEnvVars

\* C7: with no legacy file, no general file, no secret environment variable and
\* ignoreFileNotExists = true, read() returns null.
C7_NullWhenNothing ==
    \A p \in SeqProcs :
        (ReadNothing(p) /\ args[p].ignoreFileNotExists) => result[p].kind = "null"

\* C8: with no legacy file, no general file, no secret environment variable and
\* ignoreFileNotExists = false, read() fails with the uninitialized-project error.
C8_UninitializedError ==
    \A p \in SeqProcs :
        (ReadNothing(p) /\ ~args[p].ignoreFileNotExists) =>
            result[p] = Error(ErrUninitialized)

\* the configuration read() hands to _validateStencilConfig
ValidatedConfig(p) ==
    IF start[p].oldFile.exists
    THEN start[p].oldFile.obj
    ELSE Spread(start[p].confFile.obj, GetSecretsConfigFromEnvVars(envVars).obj)

\* a read() has ended after validating: it did not fail on a file-system call or
\* on parsing, and did not end in the no-project branch
ReachedValidation(p) ==
    /\ pc[p] = "done" /\ args[p].op = "read"
    /\ result[p].err \notin {ErrIO, ErrParse, ErrUninitialized}
    /\ result[p].kind # "null"

RequiredMissing(c) ==
    Get(c, "normalStoreUrl") \in {JsUndefined, JsNull, JsFalse, ""}
        \/ Get(c, "customLayouts") \in {JsUndefined, JsNull, JsFalse, ""}

\* C9: a configuration in which normalStoreUrl or customLayouts is missing or
\* falsy fails validation with the outdated-config error when
\* ignoreMissingFields = false and is returned when it is true; a configuration
\* with both fields is returned for either flag.
C9_RequiredFields ==
    \A p \in SeqProcs :
        ReachedValidation(p) =>
            LET c == ValidatedConfig(p)
            IN  IF RequiredMissing(c) /\ ~args[p].ignoreMissingFields
                THEN result[p] = Error(ErrOutdated)
                ELSE /\ result[p].kind = "value"
                     /\ \A k \in (DOMAIN c) \ {"apiHost"} : Get(result[p].val, k) = c[k]

\* a configuration without customLayouts is returned under ignoreMissingFields
C9_Witness ==
    \E p \in SeqProcs :
        /\ ReachedValidation(p)
        /\ ~Falsy(Get(ValidatedConfig(p), "normalStoreUrl"))
        /\ "customLayouts" \notin DOMAIN ValidatedConfig(p)
        /\ args[p].ignoreMissingFields
        /\ result[p].kind = "value"

\* the number of fallback messages a call logged
Fallbacks(p) == Cardinality({i \in 1..Len(log[p]) : log[p][i] = LogFallback})

\* C10: validation of a configuration that passes the required-field rule and
\* has no apiHost (absent or falsy, the code's `!config.apiHost`) returns it with
\* apiHost = the default host and logs one fallback message; a configuration
\* with an apiHost is returned unchanged and no fallback message is logged.
C10_DefaultFill ==
    \A p \in SeqProcs :
        (ReachedValidation(p) /\ result[p].kind = "value") =>
            LET c == ValidatedConfig(p)
            IN  IF Get(c, "apiHost") \in {JsUndefined, JsNull, JsFalse, ""}
                THEN /\ result[p].val = Put(c, "apiHost", API_HOST)
                     /\ Fallbacks(p) = 1
                ELSE /\ result[p].val = c
                     /\ Fallbacks(p) = 0

\* a configuration without apiHost came back with the default host and one message
C10_Witness ==
    \E p \in SeqProcs :
        /\ ReachedValidation(p)
        /\ result[p].kind = "value"
        /\ "apiHost" \notin DOMAIN ValidatedConfig(p)
        /\ ~RequiredMissing(ValidatedConfig(p))
        /\ result[p].val = Put(ValidatedConfig(p), "apiHost", API_HOST)
        /\ Fallbacks(p) = 1

\* C11: after a successful save(config) the general file holds exactly the
\* entries of config whose key is neither accessToken nor githubToken, whatever
\* it held before.
C11_GeneralFileExact ==
    \A p \in SeqProcs :
        Returned(p, "save") =>
            /\ confFile.exists /\ confFile.ok
            /\ DOMAIN confFile.obj = (DOMAIN args[p].config) \ {"accessToken", "githubToken"}
            /\ \A k \in DOMAIN confFile.obj : confFile.obj[k] = args[p].config[k]

\* a configuration with a secret and without normalStoreUrl was saved over a
\* general file that held normalStoreUrl and accessToken
C11_Witness ==
    \E p \in SeqProcs :
        /\ Returned(p, "save")
        /\ start[p].confFile = Stringify(StaleConfig)
        /\ "accessToken" \in DOMAIN args[p].config
        /\ "normalStoreUrl" \notin DOMAIN args[p].config
        /\ "apiHost" \in DOMAIN confFile.obj

\* a read() ended that came right after a read() which returned a value
ReadAfterReturnedRead(p) ==
    /\ pc[p] = "done" /\ args[p].op = "read"
    /\ last[p].args.op = "read"
    /\ last[p].result.kind = "value"

\* C12: a read() returns a value only when the legacy file is gone; a legacy
\* file that is gone stays gone; and a read() that follows a read() which
\* returned a value finds no legacy file, runs no migration and writes no file.
C12_MigratesOnce ==
    /\ [](\A p \in SeqProcs :
             (pc[p] = "done" /\ args[p].op = "read" /\ result[p].kind \in {"value", "null"})
                 => ~oldFile.exists)
    /\ [][~oldFile.exists => ~oldFile'.exists]_vars
    /\ [](\A p \in SeqProcs :
             ReadAfterReturnedRead(p) =>
                 /\ ~start[p].oldFile.exists
                 /\ \A i \in 1..Len(log[p]) : log[p][i] \notin {LogDeprecated, LogReplaced}
                 /\ Disk = start[p])

\* the read() after a migrating read() took the current-format branch
C12_Witness ==
    \E p \in SeqProcs :
        /\ ReadAfterReturnedRead(p)
        /\ last[p].start.oldFile.exists
        /\ ~last[p].start.confFile.exists
        /\ confFile.exists
        /\ result[p].kind = "value"

\* a read() has ended that found an unparsable legacy file
ReadBrokenLegacy(p) == ReadLegacy(p) /\ ~start[p].oldFile.ok

ReadBrokenGeneral(p) ==
    /\ pc[p] = "done" /\ args[p].op = "read"
    /\ ~start[p].oldFile.exists
    /\ start[p].confFile.exists /\ ~start[p].confFile.ok

\* C14: with no legacy file and an unparsable general file, read() fails with
\* the parser's failure for every value of the two flags.
C14_BrokenGeneralPropagates ==
    \A p \in SeqProcs : ReadBrokenGeneral(p) => result[p] = Error(ErrParse)

\* the parse failure came through with both flags set and a secret in the environment
C14_Witness ==
    \E p \in SeqProcs :
        /\ ReadBrokenGeneral(p)
        /\ args[p].ignoreFileNotExists /\ args[p].ignoreMissingFields
        /\ envVars[KeyAT] = "tok123"
        /\ result[p] = Error(ErrParse)

\* the lines of a text that are not empty
NonEmptyLines(text) ==
    LET NotEmpty(l) == l # <<>> IN SelectSeq(Split(text), NotEmpty)

\* the lines an upsert of key and value is to leave, given the non-empty lines
\* before it: the first uncommented line of the key replaced, or a line appended
UpsertedLines(lines, key, value) ==
    IF \E i \in 1..Len(lines) : IsKeyLine(lines[i], key)
    THEN LET first == CHOOSE i \in 1..Len(lines) :
                          IsKeyLine(lines[i], key) /\ \A j \in 1..(i-1) : ~IsKeyLine(lines[j], key)
         IN  [lines EXCEPT ![first] = SecretLine(key, value)]
    ELSE Append(lines, SecretLine(key, value))

\* C15: an upsert of key K keeps every non-empty line in its place, replaces the
\* first uncommented line of K by K=value or, when there is none, appends
\* K=value at the end, and drops the empty lines and nothing else.
C15_UpsertFrame ==
    \A p \in SeqProcs :
        Returned(p, "setEnv") =>
            Split(envFiles[args[p].envFile].data) =
                UpsertedLines(NonEmptyLines(start[p].envFiles[args[p].envFile].data),
                              args[p].key, args[p].value)

\* process.env[k] || null
EnvSecret(k) == IF envVars[k] \in {JsUndefined, ""} THEN JsNull ELSE envVars[k]

\* a read() that found no legacy file has ended
ReadCurrentDone(p) == pc[p] = "done" /\ args[p].op = "read" /\ ~start[p].oldFile.exists

\* C16: a configuration returned by the current-format branch carries the two
\* secrets of the environment variables (null for a variable that is unset or
\* empty), whatever the general file holds under those keys; with no general
\* file and STENCIL_ACCESS_TOKEN=tok123 the read() returns accessToken tok123
\* when ignoreMissingFields = true and fails as outdated when it is false.
C16_EnvSecretsOverride ==
    \A p \in SeqProcs :
        ReadCurrentDone(p) =>
            /\ result[p].kind = "value" =>
                   /\ Get(result[p].val, "accessToken") = EnvSecret(KeyAT)
                   /\ Get(result[p].val, "githubToken") = EnvSecret(KeyGT)
            /\ (~start[p].confFile.exists /\ envVars[KeyAT] = "tok123") =>
                   IF args[p].ignoreMissingFields
                   THEN result[p].kind = "value" /\ Get(result[p].val, "accessToken") = "tok123"
                   ELSE result[p] = Error(ErrOutdated)

\* the environment variable replaced the accessToken of the general file
C16_Witness ==
    \E p \in SeqProcs :
        /\ ReadCurrentDone(p)
        /\ Get(start[p].confFile.obj, "accessToken") = "infile"
        /\ envVars[KeyAT] = "tok123"
        /\ result[p].kind = "value"
        /\ Get(result[p].val, "accessToken") = "tok123"

\* what a read() of the legacy configuration c returns when no file-system call fails
LegacyOutcome(c, ignoreMissingFields) ==
    IF RequiredMissing(c) /\ ~ignoreMissingFields
    THEN Error(ErrOutdated)
    ELSE IF Get(c, "apiHost") \in {JsUndefined, JsNull, JsFalse, ""}
         THEN Value(Put(c, "apiHost", API_HOST))
         ELSE Value(c)

\* C17: the outcome of a read() that finds the legacy file is fixed by the
\* files it found and ignoreMissingFields alone, the same for either value of
\* ignoreFileNotExists, and is never null: unless a file-system call fails, the
\* result, the general file, the environment file and the deletion of the
\* legacy file are those of the legacy configuration; when one fails the read()
\* fails and the legacy file is as it was.
C17_LegacyIgnoresFlag ==
    \A p \in SeqProcs :
        ReadLegacy(p) =>
            LET c == start[p].oldFile.obj
                env0 == IF start[p].envFiles[NoPath].exists
                        THEN start[p].envFiles[NoPath].data ELSE <<>>
            IN  /\ result[p].kind # "null"
                /\ IF result[p].err = ErrIO
                   THEN result[p] = Error(ErrIO) /\ oldFile = start[p].oldFile
                   ELSE /\ result[p] = LegacyOutcome(c, args[p].ignoreMissingFields)
                        /\ ~oldFile.exists
                        /\ confFile = Stringify(SplitStencilConfig(c).generalConfig)
                        /\ envFiles[NoPath] =
                               TextFile(UpsertText(UpsertText(env0, KeyAT, Get(c, "accessToken")),
                                                   KeyGT, Get(c, "githubToken")))

\* a legacy file without the required fields: ignoreFileNotExists = true, and
\* still the outdated-config error
C17_Witness ==
    \E p \in SeqProcs :
        /\ ReadLegacy(p)
        /\ start[p].oldFile.ok
        /\ args[p].ignoreFileNotExists
        /\ ~args[p].ignoreMissingFields
        /\ result[p] = Error(ErrOutdated)
        /\ ~oldFile.exists

\* C18: a read() that finds no legacy file leaves every file as it found it,
\* while it runs and when it has returned a configuration, returned null or thrown.
C18_ReadWritesNothing ==
    \A p \in SeqProcs :
        (args[p].op = "read" /\ ~start[p].oldFile.exists) => Disk = start[p]

\* the returned configuration got the default host and the general file did not
C18_Witness ==
    \E p \in SeqProcs :
        /\ ReadCurrentDone(p)
        /\ result[p].kind = "value"
        /\ start[p].confFile.exists
        /\ "apiHost" \notin DOMAIN confFile.obj
        /\ Get(result[p].val, "apiHost") = API_HOST
        /\ confFile = start[p].confFile

\* a read() ended that came right after a read() which found the legacy file
\* and failed on a file-system call
RetryRead(p) ==
    /\ pc[p] = "done" /\ args[p].op = "read"
    /\ last[p].args.op = "read"
    /\ last[p].start.oldFile.exists
    /\ last[p].result.err = ErrIO

\* C19: the read() after a read() whose migration failed finds the legacy file
\* as the failed read() found it and runs the migration again; when it does
\* not fail, the general file and the environment file are what the failed
\* attempt would have left had it succeeded.
C19_RetrySafe ==
    \A p \in SeqProcs :
        RetryRead(p) =>
            LET c == last[p].start.oldFile.obj
                env0 == IF last[p].start.envFiles[NoPath].exists
                        THEN last[p].start.envFiles[NoPath].data ELSE <<>>
            IN  /\ start[p].oldFile = last[p].start.oldFile
                /\ \E i \in 1..Len(log[p]) : log[p][i] = LogDeprecated
                /\ result[p].err # ErrIO =>
                       /\ ~oldFile.exists
                       /\ confFile = Stringify(SplitStencilConfig(c).generalConfig)
                       /\ envFiles[NoPath] =
                              TextFile(UpsertText(UpsertText(env0, KeyAT, Get(c, "accessToken")),
                                                  KeyGT, Get(c, "githubToken")))

\* the retry succeeded after an attempt that had written the general file and
\* the first secret before it failed
C19_Witness ==
    \E p \in SeqProcs :
        /\ RetryRead(p)
        /\ result[p].kind = "value"
        /\ ~oldFile.exists
        /\ start[p].confFile # last[p].start.confFile
        /\ start[p].envFiles[NoPath].exists
        /\ HasLine(start[p].envFiles[NoPath].data, <<KeyAT, "=", "abc">>)

\* both callers' save() has returned
BothSaved == \A p \in Procs : Returned(p, "save")

\* the general file and every secret of the environment file are those of call p
FilesOfCall(p) ==
    /\ confFile = Stringify(SplitStencilConfig(args[p].config).generalConfig)
    /\ Recovered(envFiles[EnvPath].data, KeyAT) \subseteq {OrEmpty(Get(args[p].config, "accessToken"))}
    /\ Recovered(envFiles[EnvPath].data, KeyGT) = {OrEmpty(Get(args[p].config, "githubToken"))}

\* a step that changes the environment file is one call's two upserts, one
\* after the other with nothing in between
UpsertsTogether ==
    envFiles' # envFiles =>
        \E p \in Procs :
            /\ pc[p] = "setEnv" /\ pc'[p] = "done"
            /\ result'[p].kind = "ok" =>
                   envFiles'[EnvPath].data =
                       UpsertText(UpsertText(envFiles[EnvPath].data, KeyAT,
                                             Get(args[p].config, "accessToken")),
                                  KeyGT, Get(args[p].config, "githubToken"))

\* C20 as claimed: once two save() calls in flight have both returned, the
\* general file and the secrets of the environment file come from the same
\* call, and a call's two upserts are never separated by an upsert of the other.
C20_SameCall ==
    /\ [](BothSaved => \E p \in Procs : FilesOfCall(p))
    /\ [][UpsertsTogether]_vars

\* C20 as amended: once both calls have returned, the general file is that of
\* one call and the secrets of the environment file are those of one call, which
\* need not be the same call; a call's two upserts are never separated.
C20_EachFileOneCall ==
    /\ [](BothSaved =>
             /\ \E p \in Procs :
                    confFile = Stringify(SplitStencilConfig(args[p].config).generalConfig)
             /\ \E q \in Procs :
                    /\ Recovered(envFiles[EnvPath].data, KeyAT)
                           \subseteq {OrEmpty(Get(args[q].config, "accessToken"))}
                    /\ Recovered(envFiles[EnvPath].data, KeyGT)
                           = {OrEmpty(Get(args[q].config, "githubToken"))})
    /\ [][UpsertsTogether]_vars

\* both calls returned, the general file is the one call's and the
\* STENCIL_GITHUB_TOKEN line the other's
C20_Witness ==
    /\ BothSaved
    /\ confFile = Stringify(SplitStencilConfig(args[1].config).generalConfig)
    /\ Recovered(envFiles[EnvPath].data, KeyGT) = {OrEmpty(Get(args[2].config, "githubToken"))}
    /\ ~FilesOfCall(1) /\ ~FilesOfCall(2)

====
